---------------------------- MODULE Spec2Model ----------------------------
(***************************************************************************)
(* Profile-likelihood engines of gaussian_proc                             *)
(* (src/gaussian_proc/_likelihood/_profile_likelihood.py and               *)
(*  src/gaussian_proc/_likelihood/_double_profile_likelihood.py).          *)
(*                                                                         *)
(* Numbers.  log_eta lives on a grid of Scale units per decade.  A real    *)
(* number is one of                                                        *)
(*   Lin(v)   the plain number v/Scale  (Lin(0) is the float 0.0),         *)
(*   Exp(v)   the positive number 10^(v/Scale),                            *)
(*   NegInf, PosInf.                                                       *)
(* 10**x, log10 and sqrt move between the two forms, so a value that is    *)
(* passed in the wrong space is a different value.                         *)
(*                                                                         *)
(* Effects.  Every function of the engines takes the state st of the       *)
(* shared covariance operator, [ds, log], and returns [ok, v, st]: ds is   *)
(* the operator's distance_scale (None when unset), log the operator calls *)
(* and warnings issued so far, ok = FALSE an exception that propagates     *)
(* (v is then its name).                                                   *)
(***************************************************************************)
EXTENDS Integers, Sequences, FiniteSets, TLC

VARIABLES
    scn,        \* the data (z, X) and kernel of this run: shapes the oracle
    cov_ds,     \* distance_scale held by the shared covariance operator
    last,       \* the most recent call: [op, arg, pre, ok, v, log]
    fault       \* the operator call of a run that fails (0: none does)

vars == <<scn, cov_ds, last, fault>>

(***************************************************************************)
(* Bounds of the model                                                     *)
(***************************************************************************)
Scale == 8              \* grid units per decade of log_eta
Tol == 2                \* the root-finder's tol (1e-6 in the code) in grid units
TRes == 64              \* resolution of the interpolation weight t
MaxDim == 2             \* number of length-scale entries of a hyperparameter
MaxScale == 2           \* length-scale magnitudes range over 1..MaxScale
MaxSlope == 3           \* steepness of the derivative in the data scenarios
NminusM == 2            \* n - m of the design matrix X
MaxFault == 12          \* latest operator call of a run that may fail
MaxDecade == 330        \* log_eta_guess ranges over -MaxDecade..MaxDecade

(***************************************************************************)
(* Program constants                                                       *)
(***************************************************************************)
max_eta_exp == 16       \* max_eta = 1e+16
min_eta_exp == -16      \* min_eta = 1e-16
max_iterations == 100   \* find_likelihood_der1_zeros(max_iterations=100)
num_bracket_trials == 3 \* find_likelihood_der1_zeros(num_bracket_trials=3)

None == [k |-> "none"]
NegInf == [k |-> "neginf"]
PosInf == [k |-> "posinf"]
Lin(v) == [k |-> "lin", v |-> v]
Exp(v) == [k |-> "exp", v |-> v]
Zero == Lin(0)

Abs(i) == IF i < 0 THEN -i ELSE i
Min(a, b) == IF a <= b THEN a ELSE b
Max(a, b) == IF a >= b THEN a ELSE b

\* 10.0**x.  Of a number that is itself a power of ten, 10^(10^(v/Scale)):
\* on the grid when 10^(v/Scale) is 1 or 10, else kept as ExpExp(v).
ExpExp(v) == [k |-> "expexp", v |-> v]
Pow10(x) ==
    CASE x.k = "lin" -> Exp(x.v)
      [] x.k = "neginf" -> Zero
      [] x.k = "posinf" -> PosInf
      [] x.k = "exp" /\ x.v = 0 -> Exp(Scale)
      [] x.k = "exp" /\ x.v = Scale -> Exp(10 * Scale)
      [] OTHER -> ExpExp(x.v)

\* numpy.log10(x) of a non-negative number
Log10(x) ==
    CASE x.k = "exp" -> Lin(x.v)
      [] x.k = "posinf" -> PosInf
      [] OTHER -> NegInf

\* numpy.sqrt(x) of a non-negative number (the grid halves downwards)
Sqrt(x) == IF x.k = "exp" THEN Exp((x.v - (x.v % 2)) \div 2) ELSE x

\* x * y and x / y of non-negative numbers
Mul(x, y) ==
    CASE x = Zero \/ y = Zero -> Zero
      [] x.k = "posinf" \/ y.k = "posinf" -> PosInf
      [] OTHER -> Exp(x.v + y.v)
Div(x, y) ==
    CASE x = Zero \/ y.k = "posinf" -> Zero
      [] OTHER -> Exp(x.v - y.v)

\* numpy.abs(x) >= 10^e  and  numpy.abs(x) > 10^e  and  numpy.abs(x) < 10^e
\* 10^(10^(v/Scale)) against 10^e, that is 10^(v/Scale) against e, with
\* 1000*log10(e) tabulated for e = 1..20
Log10Milli == <<0, 301, 477, 602, 699, 778, 845, 903, 954, 1000, 1041, 1079,
                1114, 1146, 1176, 1204, 1230, 1255, 1279, 1301>>
TenToGeq(v, e) == e <= 0 \/ v * 1000 >= Scale * Log10Milli[e]
TenToGt(v, e) == e <= 0 \/ v * 1000 > Scale * Log10Milli[e]
GeqPow10(x, e) ==
    \/ x.k = "posinf"
    \/ (x.k = "exp" /\ x.v >= e * Scale)
    \/ (x.k = "expexp" /\ TenToGeq(x.v, e))
GtPow10(x, e) ==
    \/ x.k = "posinf"
    \/ (x.k = "exp" /\ x.v > e * Scale)
    \/ (x.k = "expexp" /\ TenToGt(x.v, e))
LtPow10(x, e) ==
    \/ x = Zero
    \/ (x.k = "exp" /\ x.v < e * Scale)
    \/ (x.k = "expexp" /\ ~TenToGeq(x.v, e))

(***************************************************************************)
(* Hyperparameters: a scalar log_eta, or an array [log_eta, scale...]      *)
(***************************************************************************)
Scalar(x) == [scalar |-> TRUE, x |-> x]
Array(a) == [scalar |-> FALSE, a |-> a]
isscalar(h) == h.scalar
size(h) == Len(h.a)
Tail1(a) == [i \in 1..(Len(a) - 1) |-> a[i + 1]]
AbsSeq(a) == [i \in 1..Len(a) |-> Abs(a[i])]

(***************************************************************************)
(* The covariance operator (external collaborator)                         *)
(***************************************************************************)
St(ds, log) == [ds |-> ds, log |-> log]
Ok(v, st) == [ok |-> TRUE, v |-> v, st |-> st]
Raise(name, st) == [ok |-> FALSE, v |-> name, st |-> st]

\* The distance_scale held by the operator: None, or Some(vector)
Some(vec) == [k |-> "some", v |-> vec]

set_distance_scale(st, vec) ==
    St(Some(vec), Append(st.log, "set_distance_scale"))

\* One call of solve/logdet/traceinv: recorded, and an error while the
\* distance_scale is unset: get_distance_scale() is None, the operator holds
\* no value to build the correlation matrix from.
\* A singular matrix makes the call at place `fault` of the log fail.
OpCall(st, name) ==
    IF st.ds = None THEN Raise("ScaleUnset", St(st.ds, Append(st.log, name)))
    ELSE IF Len(st.log) + 1 = fault
    THEN Raise("LinAlgError", St(st.ds, Append(st.log, name)))
    ELSE Ok(TRUE, St(st.ds, Append(st.log, name)))

\* Several operator calls in a row; the first failure propagates
RECURSIVE OpCalls(_, _)
OpCalls(st, names) ==
    IF Len(names) = 0 THEN Ok(TRUE, st)
    ELSE LET r == OpCall(st, names[1])
         IN  IF ~r.ok THEN r ELSE OpCalls(r.st, Tail1(names))

RECURSIVE SumSeq(_)
SumSeq(s) == IF Len(s) = 0 THEN 0 ELSE s[1] + SumSeq(Tail1(s))

\* How the matrices move with the distance_scale
DsShift(ds) == SumSeq(ds.v)

\* log_eta of a finite eta on the grid; eta = 0 sits below every grid value
EtaLog(eta) ==
    CASE eta.k = "exp" -> eta.v
      [] eta.k = "expexp" ->
            IF eta.v < 0 THEN 1 ELSE IF eta.v < Scale THEN Scale + eta.v
            ELSE 10 * Scale + eta.v
      [] eta.k = "posinf" -> 2 * max_eta_exp * Scale
      [] OTHER -> -(2 * max_eta_exp * Scale)

\* sqrt(z.T M z / (n-m)) of find_optimal_sigma, for the data of the scenario
OpSigma(eta, ds) ==
    LET x == EtaLog(eta)
    IN  Exp(scn.s0 + DsShift(ds) - ((Max(x, 0) - (Max(x, 0) % 2)) \div 2))

\* logdet(Kn) and log det(X.T Kn^-1 X) in grid units of the logarithm
OpLogdetKn(eta, ds) == Max(EtaLog(eta), 0) * (NminusM + 1) + 2 * DsShift(ds)
OpLogdetXtKninvX(eta, ds) == -Max(EtaLog(eta), 0) - DsShift(ds)

\* -0.5*(trace_M - zM2z/sigma2) for the data of the scenario
OpDlpDeta(x, ds) ==
    CASE scn.kind = "peak" ->
            scn.slope * (2 * (scn.root + DsShift(ds)) - scn.half - 2 * x)
      [] scn.kind = "pos" -> scn.slope + DsShift(ds)
      [] scn.kind = "neg" -> -(scn.slope + DsShift(ds))
      [] OTHER -> IF x <= scn.root THEN 0 ELSE scn.slope * (x - scn.root)

\* 0.5*(trace_M2 - 2 zM3z/sigma2 + zM2z^2/((n-m) sigma2^2)) for the data
\* of the scenario: of the sign of d2 below eta = 1, and of the other sign
\* from there on (the likelihood has an inflection at eta = 1)
OpD2lpDeta2(x, ds) ==
    IF x < 0 THEN scn.d2 * (1 + DsShift(ds) + Abs(x))
    ELSE -(scn.d2 * (1 + DsShift(ds) + x))

\* The length-scale derivatives for the data: -0.5*trace_SpM + 0.5*zMSpMz,
\* the (p, q) second derivative and sigma**2 * (0.5*trace_MSpM - zMSpMMz)
OpDer1Scale(eta, ds, p) == 3 * ds[p] + p + Max(EtaLog(eta), 0)
OpDer2Scale(eta, ds, p, q) == -(ds[p] * ds[q]) - p - q - Max(EtaLog(eta), 0)
OpDer2Mixed(eta, ds, p) == ds[p] - 5 * p + Max(EtaLog(eta), 0)

(***************************************************************************)
(* ProfileLikelihood.find_optimal_sigma0 / find_optimal_sigma /            *)
(* find_optimal_sigma_sigma0                                               *)
(***************************************************************************)
\* OLS residual estimator on (z, X): no covariance operator involved
find_optimal_sigma0 == Exp(scn.s0)

\* r, and then K(r) unless r is an exception on its way up
Then(r, K(_)) == IF r.ok THEN K(r) ELSE r

find_optimal_sigma(st, eta) ==
    Then(OpCall(st, "solve"), LAMBDA Y :
    Then(OpCall(Y.st, "solve"), LAMBDA w :
    Ok(OpSigma(eta, st.ds), w.st)))

find_optimal_sigma_sigma0_strict_geq(st, eta) ==
    IF GeqPow10(eta, max_eta_exp + 1)
    THEN Ok([sigma |-> Div(find_optimal_sigma0, Sqrt(eta)),
             sigma0 |-> find_optimal_sigma0], st)
    ELSE Then(find_optimal_sigma(st, eta), LAMBDA s :
         Ok([sigma |-> s.v,
             sigma0 |-> IF LtPow10(eta, min_eta_exp) THEN Zero
                        ELSE Mul(Sqrt(eta), s.v)], s.st))

find_optimal_sigma_sigma0(st, eta) ==
    IF GtPow10(eta, max_eta_exp)
    THEN Ok([sigma |-> IF eta.k = "posinf" THEN Zero
                       ELSE Div(find_optimal_sigma0, Sqrt(eta)),
             sigma0 |-> find_optimal_sigma0], st)
    ELSE Then(find_optimal_sigma(st, eta), LAMBDA s :
         Ok([sigma |-> s.v,
             sigma0 |-> IF LtPow10(eta, min_eta_exp) THEN Zero
                        ELSE Mul(Sqrt(eta), s.v)], s.st))

(***************************************************************************)
(* ProfileLikelihood.likelihood                                            *)
(* Likelihood values are carried doubled, in grid units of the natural     *)
(* logarithm, so that the halves of the formula stay integral.             *)
(***************************************************************************)
Ln2PiU == (798 * Scale) \div 1000       \* ln(2 pi) in grid units
OneU == (434 * Scale) \div 1000         \* 1.0 in grid units
LnU(x) == x.v                           \* numpy.log of a positive number

\* log det((X.T X)^-1): the data alone
logdet_Binv == -scn.s0

log_eta_of(h) == IF isscalar(h) THEN h.x ELSE h.a[1]

\* if numpy.isneginf(log_eta): eta = 0.0 else: eta = 10.0**log_eta
eta_of(log_eta) == IF log_eta = NegInf THEN Zero ELSE Pow10(log_eta)

\* (a variant that sets the distance_scale for every array, entries or not)
with_distance_scale_any_array(st, h) ==
    IF ~isscalar(h)
    THEN set_distance_scale(st, AbsSeq(Tail1(h.a)))
    ELSE st

\* if (not numpy.isscalar(hyperparam)) and (hyperparam.size > 1): set
with_distance_scale(st, h) ==
    IF (~isscalar(h)) /\ size(h) > 1
    THEN set_distance_scale(st, AbsSeq(Tail1(h.a)))
    ELSE st

switch_sign(sign_switch, lp) == IF sign_switch THEN -lp ELSE lp

lp_large_eta ==
    -(NminusM * Ln2PiU) - 2 * NminusM * LnU(find_optimal_sigma0)
        - logdet_Binv - NminusM * OneU

lp_general(sigma, logdet_Kn, logdet_XtKninvX) ==
    -(NminusM * Ln2PiU) - 2 * NminusM * LnU(sigma) - logdet_Kn
        - logdet_XtKninvX - NminusM * OneU

likelihood_set_after_solve(st, sign_switch, hyperparam) ==
    LET eta == eta_of(log_eta_of(hyperparam))
    IN  IF GeqPow10(eta, max_eta_exp)
        THEN Ok(switch_sign(sign_switch, lp_large_eta),
                with_distance_scale(st, hyperparam))
        ELSE Then(find_optimal_sigma(st, eta), LAMBDA sigma :
             Then(OpCall(sigma.st, "logdet"), LAMBDA ld :
             Then(OpCall(ld.st, "solve"), LAMBDA Y :
             Ok(switch_sign(sign_switch,
                    lp_general(sigma.v, OpLogdetKn(eta, st.ds),
                               OpLogdetXtKninvX(eta, st.ds))),
                with_distance_scale(Y.st, hyperparam)))))

likelihood_no_switch_large_eta(st, sign_switch, hyperparam) ==
    LET st1 == with_distance_scale(st, hyperparam)
        eta == eta_of(log_eta_of(hyperparam))
    IN  IF GeqPow10(eta, max_eta_exp)
        THEN Ok(lp_large_eta, st1)
        ELSE Then(find_optimal_sigma(st1, eta), LAMBDA sigma :
             Then(OpCall(sigma.st, "logdet"), LAMBDA ld :
             Then(OpCall(ld.st, "solve"), LAMBDA Y :
             Ok(switch_sign(sign_switch,
                    lp_general(sigma.v, OpLogdetKn(eta, st1.ds),
                               OpLogdetXtKninvX(eta, st1.ds))),
                Y.st))))

\* (a variant that sets the length-scales as given, signs included)
likelihood_signed_scale(st, sign_switch, hyperparam) ==
    LET st1 == IF (~isscalar(hyperparam)) /\ size(hyperparam) > 1
               THEN set_distance_scale(st, Tail1(hyperparam.a)) ELSE st
        eta == eta_of(log_eta_of(hyperparam))
    IN  IF GeqPow10(eta, max_eta_exp)
        THEN Ok(switch_sign(sign_switch, lp_large_eta), st1)
        ELSE Then(find_optimal_sigma(st1, eta), LAMBDA sigma :
             Then(OpCall(sigma.st, "logdet"), LAMBDA ld :
             Then(OpCall(ld.st, "solve"), LAMBDA Y :
             Ok(switch_sign(sign_switch,
                    lp_general(sigma.v, OpLogdetKn(eta, st1.ds),
                               OpLogdetXtKninvX(eta, st1.ds))),
                Y.st))))

likelihood(st, sign_switch, hyperparam) ==
    LET st1 == with_distance_scale(st, hyperparam)
        eta == eta_of(log_eta_of(hyperparam))
    IN  IF GeqPow10(eta, max_eta_exp)
        THEN Ok(switch_sign(sign_switch, lp_large_eta), st1)
        ELSE Then(find_optimal_sigma(st1, eta), LAMBDA sigma :
             Then(OpCall(sigma.st, "logdet"), LAMBDA ld :
             Then(OpCall(ld.st, "solve"), LAMBDA Y :
             Ok(switch_sign(sign_switch,
                    lp_general(sigma.v, OpLogdetKn(eta, st1.ds),
                               OpLogdetXtKninvX(eta, st1.ds))),
                Y.st))))

(***************************************************************************)
(* ProfileLikelihood.likelihood_der1_eta / likelihood_der2_eta             *)
(* Derivative values are fixed-point reals, Scale units to 1.0.            *)
(***************************************************************************)
\* Return as scalar or array of length one
like_shape(h, d) == IF isscalar(h) THEN Scalar(d) ELSE Array(<<d>>)

likelihood_der1_eta_keeps_scale(st, hyperparam) ==
    LET eta == eta_of(log_eta_of(hyperparam))
    IN  Then(OpCalls(st, <<"solve", "solve", "traceinv">>), LAMBDA tr :
        Ok(like_shape(hyperparam, OpDlpDeta(EtaLog(eta), st.ds)), tr.st))

likelihood_der1_eta(st, hyperparam) ==
    LET eta == eta_of(log_eta_of(hyperparam))
        st1 == with_distance_scale(st, hyperparam)
    IN  Then(OpCalls(st1, <<"solve", "solve", "traceinv">>), LAMBDA tr :
        Ok(like_shape(hyperparam, OpDlpDeta(EtaLog(eta), st1.ds)), tr.st))

likelihood_der2_eta(st, hyperparam) ==
    LET eta == eta_of(log_eta_of(hyperparam))
        st1 == with_distance_scale(st, hyperparam)
    IN  Then(OpCalls(st1, <<"solve", "solve", "solve", "traceinv", "solve">>),
             LAMBDA v :
        Ok(IF isscalar(hyperparam)
           THEN Scalar(OpD2lpDeta2(EtaLog(eta), st1.ds))
           ELSE Array(<<Array(<<OpD2lpDeta2(EtaLog(eta), st1.ds)>>)>>),
           v.st))

(***************************************************************************)
(* ProfileLikelihood.likelihood_der1_distance_scale,                       *)
(* likelihood_der2_distance_scale, likelihood_der2_mixed                   *)
(* Vectors are sequences, matrices sequences of rows.                      *)
(***************************************************************************)
\* one round of the loop over p (or over p, q): the operator calls it makes
der1_loop_calls == <<"dot", "get_matrix", "dot">>
der2_loop_calls == <<"dot", "dot", "get_matrix", "dot", "get_matrix",
                     "get_matrix", "solve", "solve">>
mixed_loop_calls == <<"dot", "get_matrix", "dot">>

RECURSIVE Repeat(_, _)
Repeat(names, k) == IF k <= 0 THEN <<>> ELSE names \o Repeat(names, k - 1)

likelihood_der1_distance_scale(st, hyperparam) ==
    IF isscalar(hyperparam) THEN Raise("IndexError", st)
    ELSE
    LET eta == Pow10(log_eta_of(hyperparam))
        distance_scale == AbsSeq(Tail1(hyperparam.a))
    IN  Then(find_optimal_sigma_sigma0(
                set_distance_scale(st, distance_scale), eta), LAMBDA ss :
        Then(OpCalls(ss.st, <<"solve", "solve", "get_matrix">>
                    \o Repeat(der1_loop_calls, Len(distance_scale))),
             LAMBDA c :
        Ok([p \in 1..Len(distance_scale) |->
                OpDer1Scale(eta, distance_scale, p)], c.st)))

likelihood_der2_distance_scale(st, hyperparam) ==
    IF isscalar(hyperparam) THEN Raise("IndexError", st)
    ELSE
    LET eta == Pow10(log_eta_of(hyperparam))
        distance_scale == AbsSeq(Tail1(hyperparam.a))
    IN  Then(find_optimal_sigma_sigma0(
                set_distance_scale(st, distance_scale), eta), LAMBDA ss :
        Then(OpCalls(ss.st, <<"solve", "solve", "get_matrix">>
                    \o Repeat(der2_loop_calls,
                              Len(distance_scale) * Len(distance_scale))),
             LAMBDA c :
        Ok([p \in 1..Len(distance_scale) |->
                [q \in 1..Len(distance_scale) |->
                    OpDer2Scale(eta, distance_scale, p, q)]], c.st)))

\* der2_mixed has ONE row, numpy.zeros((1, size)); the loop assigns
\* der2_mixed[p], a row index: p = 0 fills the row, p = 1 is out of range.
likelihood_der2_mixed(st, hyperparam) ==
    IF isscalar(hyperparam) THEN Raise("IndexError", st)
    ELSE
    LET eta == Pow10(log_eta_of(hyperparam))
        distance_scale == AbsSeq(Tail1(hyperparam.a))
        rounds == Min(Len(distance_scale), 2)
    IN  Then(find_optimal_sigma_sigma0(
                set_distance_scale(st, distance_scale), eta), LAMBDA ss :
        Then(OpCalls(ss.st, <<"solve", "solve", "solve", "solve",
                              "get_matrix">>
                            \o Repeat(mixed_loop_calls, rounds)),
             LAMBDA c :
        IF Len(distance_scale) >= 2 THEN Raise("IndexError", c.st)
        ELSE Ok(<<[q \in 1..Len(distance_scale) |->
                    OpDer2Mixed(eta, distance_scale, 1)]>>, c.st)))

(***************************************************************************)
(* ProfileLikelihood.likelihood_jacobian / likelihood_hessian              *)
(***************************************************************************)
NegSeq(a) == [i \in 1..Len(a) |-> -a[i]]
NegMat(mat) == [i \in 1..Len(mat) |-> NegSeq(mat[i])]
Column(row) == [i \in 1..Len(row) |-> <<row[i]>>]

likelihood_jacobian(st, sign_switch, hyperparam) ==
    Then(likelihood_der1_eta(st, hyperparam), LAMBDA der1_eta :
    IF isscalar(hyperparam) THEN Raise("AttributeError", der1_eta.st)
    ELSE IF size(hyperparam) > 1
    THEN Then(likelihood_der1_distance_scale(der1_eta.st, hyperparam),
              LAMBDA d :
         Ok(IF sign_switch THEN NegSeq(der1_eta.v.a \o d.v)
            ELSE der1_eta.v.a \o d.v, d.st))
    ELSE Ok(IF sign_switch THEN NegSeq(der1_eta.v.a) ELSE der1_eta.v.a,
            der1_eta.st))

\* numpy.block([[hessian, der2_mixed], [der2_mixed.T, der2_distance_scale]])
Block(hessian, der2_mixed, der2_distance_scale) ==
    <<hessian[1] \o der2_mixed[1]>> \o
    [i \in 1..Len(der2_distance_scale) |->
        Column(der2_mixed[1])[i] \o der2_distance_scale[i]]

likelihood_hessian(st, sign_switch, hyperparam) ==
    Then(likelihood_der2_eta(st, hyperparam), LAMBDA der2_eta :
    IF isscalar(hyperparam) THEN Raise("AttributeError", der2_eta.st)
    ELSE IF size(hyperparam) > 1
    THEN Then(likelihood_der2_distance_scale(der2_eta.st, hyperparam),
              LAMBDA dd :
         Then(likelihood_der2_mixed(dd.st, hyperparam), LAMBDA mx :
         Ok(IF sign_switch
            THEN NegMat(Block(<<der2_eta.v.a[1].a>>, mx.v, dd.v))
            ELSE Block(<<der2_eta.v.a[1].a>>, mx.v, dd.v), mx.st)))
    ELSE Ok(IF sign_switch THEN NegMat(<<der2_eta.v.a[1].a>>)
            ELSE <<der2_eta.v.a[1].a>>, der2_eta.st))

(***************************************************************************)
(* _root_finding.find_interval_with_sign_change and chandrupatla_method    *)
(* Brackets and roots are grid values of log_eta; f is the partial         *)
(* function likelihood_der1_eta(z, X, mixed_cor, .) of a scalar log_eta.   *)
(***************************************************************************)
Sign(i) == IF i > 0 THEN 1 ELSE IF i < 0 THEN -1 ELSE 0
OppositeSigns(f0, f1) == Sign(f0) * Sign(f1) < 0

\* f(x): [ok, v (the derivative value), st]
F(st, x) ==
    Then(likelihood_der1_eta(st, Scalar(Lin(x))), LAMBDA r : Ok(r.v.x, r.st))

Bracket(found, x0, x1, f0, f1, st) ==
    Ok([found |-> found, bracket |-> <<x0, x1>>, values |-> <<f0, f1>>], st)

\* Opposite signs at the ends succeed at once; otherwise each trial looks at
\* the midpoint and then widens the interval by a decade on both sides.
RECURSIVE SignChangeTrials(_, _, _, _, _, _)
SignChangeTrials(st, x0, x1, f0, f1, trials) ==
    IF OppositeSigns(f0, f1) THEN Bracket(TRUE, x0, x1, f0, f1, st)
    ELSE IF trials <= 0 THEN Bracket(FALSE, x0, x1, f0, f1, st)
    ELSE Then(F(st, (x0 + x1) \div 2), LAMBDA fm :
         IF OppositeSigns(f0, fm.v)
         THEN Bracket(TRUE, x0, (x0 + x1) \div 2, f0, fm.v, fm.st)
         ELSE Then(F(fm.st, x0 - Scale), LAMBDA l :
              Then(F(l.st, x1 + Scale), LAMBDA r :
              SignChangeTrials(r.st, x0 - Scale, x1 + Scale, l.v, r.v,
                               trials - 1))))

find_interval_with_sign_change(st, bracket, num_trials) ==
    Then(F(st, bracket[1]), LAMBDA f0 :
    Then(F(f0.st, bracket[2]), LAMBDA f1 :
    SignChangeTrials(f1.st, bracket[1], bracket[2], f0.v, f1.v,
                     num_trials)))

\* eps_a + eps_m*|root| against a width, both in grid units
WidthBelowTol(width, root, eps_m, eps_a) ==
    Scale * width < Scale * eps_a + eps_m * Abs(root)

\* The weight t of the next point a + t*(b - a), in 1/TRes: inverse
\* quadratic interpolation when the three points allow it, else bisection;
\* the point is kept strictly inside the bracket.
IqiValid(a, b, c, fa, fb, fc) ==
    /\ c # b /\ fc # fb /\ fa # fb /\ fa # fc
    /\ LET xi_n == (a - b) * (fc - fb) * (fc - fb)
           ph2 == (fa - fb) * (fa - fb) * (c - b)
           one_xi == (c - a) * (fc - fb) * (fc - fb)
           one_ph2 == (fc - fa) * (fc - fa) * (c - b)
       IN  IF c - b > 0 THEN ph2 < xi_n /\ one_ph2 < one_xi
           ELSE ph2 > xi_n /\ one_ph2 > one_xi

IqiWeight(a, b, c, fa, fb, fc) ==
    ((fa * fc * TRes) \div ((fb - fa) * (fb - fc)))
    + (((fa * fb * TRes) \div ((fc - fa) * (fc - fb))) * (c - a))
        \div (b - a)

NextPoint(a, b, c, fa, fb, fc) ==
    LET t == IF IqiValid(a, b, c, fa, fb, fc)
             THEN IqiWeight(a, b, c, fa, fb, fc) ELSE TRes \div 2
        step == (t * Abs(b - a) + (TRes \div 2)) \div TRes
        inside == Max(1, Min(Abs(b - a) - 1, step))
    IN  IF b > a THEN a + inside ELSE a - inside

\* One state of the iteration: a the newest point, b the other end of the
\* bracket, c the point before; returns [root, iterations].
RECURSIVE ChandrupatlaLoop(_, _, _, _, _, _, _, _, _, _, _)
ChandrupatlaLoop(st, a, b, c, fa, fb, fc, eps_m, eps_a, maxiter, done) ==
    LET xm == IF Abs(fa) < Abs(fb) THEN a ELSE b
    IN  IF WidthBelowTol(Abs(b - a), xm, eps_m, eps_a) \/ done >= maxiter
        THEN Ok([root |-> xm, iterations |-> done], st)
        ELSE Then(F(st, NextPoint(a, b, c, fa, fb, fc)), LAMBDA ft :
             IF Sign(ft.v) = Sign(fa)
             THEN ChandrupatlaLoop(ft.st, NextPoint(a, b, c, fa, fb, fc),
                                   b, a, ft.v, fb, fa,
                                   eps_m, eps_a, maxiter, done + 1)
             ELSE ChandrupatlaLoop(ft.st, NextPoint(a, b, c, fa, fb, fc),
                                   a, b, ft.v, fa, fb,
                                   eps_m, eps_a, maxiter, done + 1))

chandrupatla_method(st, bracket, values, eps_m, eps_a, maxiter) ==
    ChandrupatlaLoop(st, bracket[2], bracket[1], bracket[2],
                     values[2], values[1], values[2],
                     eps_m, eps_a, maxiter, 0)

(***************************************************************************)
(* ProfileLikelihood.find_likelihood_der1_zeros                            *)
(***************************************************************************)
Unbound == [k |-> "unbound"]

\* A likelihood value held by a record field that may also hold None
Lp(v) == [k |-> "lp", v |-> v]

Result(sigma, sigma0, eta, distance_scale, max_likelihood, iter) ==
    [hyperparam |-> [sigma |-> sigma, sigma0 |-> sigma0, eta |-> eta,
                     distance_scale |-> distance_scale],
     optimization |-> [max_likelihood |-> max_likelihood, iter |-> iter]]

eta_without_bracket_weak_signs(dlp_deta_left, dlp_deta_right, d2lp_deta2_zero_eta) ==
    IF dlp_deta_left >= 0 /\ dlp_deta_right >= 0
    THEN (IF d2lp_deta2_zero_eta > 0 THEN Zero ELSE PosInf)
    ELSE IF dlp_deta_left <= 0 /\ dlp_deta_right <= 0
    THEN (IF d2lp_deta2_zero_eta < 0 THEN Zero ELSE PosInf)
    ELSE Unbound

\* (a variant that reads the second derivative the same way in both rows)
eta_without_bracket_one_test(dlp_deta_left, dlp_deta_right, d2lp_deta2_zero_eta) ==
    IF dlp_deta_left > 0 /\ dlp_deta_right > 0
    THEN (IF d2lp_deta2_zero_eta > 0 THEN Zero ELSE PosInf)
    ELSE IF dlp_deta_left < 0 /\ dlp_deta_right < 0
    THEN (IF d2lp_deta2_zero_eta > 0 THEN Zero ELSE PosInf)
    ELSE Unbound

\* The choice between eta = 0 and eta = inf when no bracket was found; eta
\* stays unbound when neither branch assigns it
eta_without_bracket(dlp_deta_left, dlp_deta_right, d2lp_deta2_zero_eta) ==
    IF dlp_deta_left > 0 /\ dlp_deta_right > 0
    THEN (IF d2lp_deta2_zero_eta > 0 THEN Zero ELSE PosInf)
    ELSE IF dlp_deta_left < 0 /\ dlp_deta_right < 0
    THEN (IF d2lp_deta2_zero_eta < 0 THEN Zero ELSE PosInf)
    ELSE Unbound

\* The tail both paths share: sigma, sigma0 from eta, then the record
zeros_result(st, eta, iter) ==
    Then(find_optimal_sigma_sigma0(st, eta), LAMBDA ss :
    Ok(Result(ss.v.sigma, ss.v.sigma0, eta, None, None, iter), ss.st))

\* else: bracket with sign change was not found
no_bracket_path(st, bracket_values) ==
    Then(likelihood_der2_eta(st, Scalar(Zero)), LAMBDA d2lp_deta2_zero_eta :
    Then(LET eta == eta_without_bracket(bracket_values[1], bracket_values[2],
                                        d2lp_deta2_zero_eta.v.x)
         IN  IF eta = Unbound
             THEN Raise("UnboundLocalError", d2lp_deta2_zero_eta.st)
             ELSE IF ~(eta = Zero \/ eta.k = "posinf")
             THEN Raise("ValueError", d2lp_deta2_zero_eta.st)
             ELSE Ok(eta, d2lp_deta2_zero_eta.st),
         LAMBDA chosen : zeros_result(chosen.st, chosen.v, 0)))

find_likelihood_der1_zeros_coarse_tol(st, interval_eta, tol, maxiter, num_trials) ==
    Then(find_interval_with_sign_change(
            st, <<Log10(interval_eta[1]).v, Log10(interval_eta[2]).v>>,
            num_trials), LAMBDA br :
    IF br.v.found
    THEN Then(chandrupatla_method(br.st, br.v.bracket, br.v.values,
                                  tol * Scale, tol * Scale, maxiter),
              LAMBDA res :
         zeros_result(res.st, Pow10(Lin(res.v.root)), res.v.iterations))
    ELSE no_bracket_path(br.st, br.v.values))

\* (a variant that treats used-up iterations as an error)
find_likelihood_der1_zeros_raises_at_maxiter(st, interval_eta, tol, maxiter, num_trials) ==
    Then(find_interval_with_sign_change(
            st, <<Log10(interval_eta[1]).v, Log10(interval_eta[2]).v>>,
            num_trials), LAMBDA br :
    IF br.v.found
    THEN Then(chandrupatla_method(br.st, br.v.bracket, br.v.values,
                                  tol, tol, maxiter), LAMBDA res :
         IF res.v.iterations >= maxiter
         THEN Raise("RuntimeError", res.st)
         ELSE zeros_result(res.st, Pow10(Lin(res.v.root)),
                           res.v.iterations))
    ELSE no_bracket_path(br.st, br.v.values))

\* (a variant that lets the refinement run on past the iterations it is given)
find_likelihood_der1_zeros_unbounded_refinement(st, interval_eta, tol, maxiter, num_trials) ==
    Then(find_interval_with_sign_change(
            st, <<Log10(interval_eta[1]).v, Log10(interval_eta[2]).v>>,
            num_trials), LAMBDA br :
    IF br.v.found
    THEN Then(chandrupatla_method(br.st, br.v.bracket, br.v.values,
                                  tol, tol, maxiter + max_iterations),
              LAMBDA res :
         zeros_result(res.st, Pow10(Lin(res.v.root)), res.v.iterations))
    ELSE no_bracket_path(br.st, br.v.values))

find_likelihood_der1_zeros(st, interval_eta, tol, maxiter, num_trials) ==
    Then(find_interval_with_sign_change(
            st, <<Log10(interval_eta[1]).v, Log10(interval_eta[2]).v>>,
            num_trials), LAMBDA br :
    IF br.v.found
    THEN Then(chandrupatla_method(br.st, br.v.bracket, br.v.values,
                                  tol, tol, maxiter), LAMBDA res :
         zeros_result(res.st, Pow10(Lin(res.v.root)), res.v.iterations))
    ELSE no_bracket_path(br.st, br.v.values))

(***************************************************************************)
(* scipy.optimize.minimize, as the engines see it: a run evaluates the     *)
(* objective (and the Jacobian and Hessian the method uses) at a sequence  *)
(* of trial points, the guess first, and returns the best point found,     *)
(* which need not be the point evaluated last.                             *)
(***************************************************************************)
Methods == {"Nelder-Mead", "BFGS", "Newton-CG"}
UsesJac(method) == method \in {"BFGS", "Newton-CG"}
UsesHess(method) == method = "Newton-CG"

Evaluate(st, Fun(_, _), Jac(_, _), Hess(_, _), method, x) ==
    Then(Fun(st, x), LAMBDA f :
    Then(IF UsesJac(method) THEN Jac(f.st, x) ELSE Ok(None, f.st), LAMBDA j :
    Then(IF UsesHess(method) THEN Hess(j.st, x) ELSE Ok(None, j.st),
         LAMBDA h : Ok(f.v, h.st))))

\* res.x, res.fun, res.nit: the best of the trial points
BestOf(trials, fun) ==
    LET best == IF fun[1] <= fun[2] /\ fun[1] <= fun[3] THEN 1
                ELSE IF fun[2] <= fun[3] THEN 2 ELSE 3
    IN  [x |-> trials[best], fun |-> fun[best], nit |-> Len(trials) - 1]

minimize(st, Fun(_, _), Jac(_, _), Hess(_, _), trials, method) ==
    Then(Evaluate(st, Fun, Jac, Hess, method, trials[1]), LAMBDA e1 :
    Then(Evaluate(e1.st, Fun, Jac, Hess, method, trials[2]), LAMBDA e2 :
    Then(Evaluate(e2.st, Fun, Jac, Hess, method, trials[3]), LAMBDA e3 :
    Ok(BestOf(trials, <<e1.v, e2.v, e3.v>>), e3.st))))

OtherScale(d) == IF Abs(d) = 1 THEN MaxScale ELSE 1

\* Trial points around a guess [log_eta, scale...]: the guess, a decade up
\* in eta, and (with length-scales) the other scales with their signs turned
SingleTrials(x0) ==
    <<x0,
      [x0 EXCEPT ![1] = Lin(x0[1].v + Scale)],
      IF Len(x0) = 1 THEN <<Lin(x0[1].v - Scale)>>
      ELSE [i \in 1..Len(x0) |->
                IF i = 1 THEN x0[1] ELSE -OtherScale(x0[i])]>>

(***************************************************************************)
(* ProfileLikelihood.maximize_likelihood                                   *)
(***************************************************************************)
Warn(st, what) == St(st.ds, Append(st.log, what))
WarnIgnored == "warn: distance scale in hyperparam_guess will be ignored"
WarnSetFromGuess == "warn: distance_scale is set based on the guess value"

MinNum(x, y) ==
    IF y.k = "posinf" THEN x
    ELSE IF x = Zero \/ (y # Zero /\ x.v <= y.v) THEN x ELSE y
MaxNum(x, y) ==
    IF y.k = "posinf" THEN y
    ELSE IF x = Zero \/ (y # Zero /\ x.v <= y.v) THEN y ELSE x

\* A positive result as the double that holds it: 10^x is 0.0 below
\* x = -323.607 (half the smallest subnormal) and inf above x = 308.254
Underflows(x) == x.k = "exp" /\ x.v * 1000 < -323607 * Scale
Overflows(x) == x.k = "exp" /\ x.v * 1000 > 308254 * Scale
ToDouble(x) ==
    IF Underflows(x) THEN Zero ELSE IF Overflows(x) THEN PosInf ELSE x

\* [min(1e-4, 10**g * 1e-2), max(1e+3, 10**g * 1e+2)]
\* (a variant with the guess taken twice in the exponent)
interval_eta_of_twice_guess(log_eta_guess) ==
    <<MinNum(Exp(-4 * Scale),
             Mul(Mul(Pow10(log_eta_guess), Pow10(log_eta_guess)),
                 Exp(-2 * Scale))),
      MaxNum(Exp(3 * Scale),
             Mul(Mul(Pow10(log_eta_guess), Pow10(log_eta_guess)),
                 Exp(2 * Scale)))>>

\* (a variant without the fixed ends 1e-4 and 1e+3)
interval_eta_of_guess_decades(log_eta_guess) ==
    <<ToDouble(Mul(ToDouble(Pow10(log_eta_guess)), Exp(-2 * Scale))),
      ToDouble(Mul(ToDouble(Pow10(log_eta_guess)), Exp(2 * Scale)))>>

interval_eta_of(log_eta_guess) ==
    <<MinNum(Exp(-4 * Scale),
             ToDouble(Mul(ToDouble(Pow10(log_eta_guess)), Exp(-2 * Scale)))),
      MaxNum(Exp(3 * Scale),
             ToDouble(Mul(ToDouble(Pow10(log_eta_guess)), Exp(2 * Scale))))>>

\* log_eta_guess is a Python float, an entry of the list hyperparam_guess:
\* 10.0**log_eta_guess raises where the power overflows
chandrupatla_interval(st, hyperparam_guess) ==
    IF Overflows(Pow10(hyperparam_guess[1]))
    THEN Raise("OverflowError", st)
    ELSE Ok(interval_eta_of(hyperparam_guess[1]), st)

Elapsed == [k |-> "elapsed"]
WithTime(result) ==
    [hyperparam |-> result.hyperparam, optimization |-> result.optimization,
     time |-> [wall_time |-> Elapsed, proc_time |-> Elapsed]]

\* the warnings and the fallback of the 'chandrupatla' branch
chandrupatla_guess_always_sets(st, hyperparam_guess) ==
    IF Len(hyperparam_guess) > 1
    THEN Warn(set_distance_scale(Warn(st, WarnIgnored),
                                 Tail1(hyperparam_guess)),
              WarnSetFromGuess)
    ELSE st

chandrupatla_guess(st, hyperparam_guess) ==
    IF Len(hyperparam_guess) > 1
    THEN LET st1 == Warn(st, WarnIgnored)
         IN  IF st1.ds = None
             THEN Warn(set_distance_scale(st1, Tail1(hyperparam_guess)),
                       WarnSetFromGuess)
             ELSE st1
    ELSE st

chandrupatla_branch_keeps_placeholders(st, hyperparam_guess) ==
    find_likelihood_der1_zeros(
        chandrupatla_guess(st, hyperparam_guess),
        interval_eta_of(hyperparam_guess[1]), Tol, max_iterations,
        num_bracket_trials)

chandrupatla_branch(st, hyperparam_guess) ==
    Then(chandrupatla_interval(chandrupatla_guess(st, hyperparam_guess),
                               hyperparam_guess), LAMBDA interval_eta :
    Then(find_likelihood_der1_zeros(
            interval_eta.st, interval_eta.v, Tol, max_iterations,
            num_bracket_trials), LAMBDA result :
    Then(likelihood(result.st, FALSE, Scalar(result.v.hyperparam.eta)),
         LAMBDA lp :
    Ok(Result(result.v.hyperparam.sigma, result.v.hyperparam.sigma0,
              result.v.hyperparam.eta, lp.st.ds, Lp(lp.v),
              result.v.optimization.iter), lp.st))))

SingleFun(st, x) == likelihood(st, TRUE, Array(x))
SingleJac(st, x) == likelihood_jacobian(st, TRUE, Array(x))
SingleHess(st, x) == likelihood_hessian(st, TRUE, Array(x))

minimizer_branch(st, hyperparam_guess, optimization_method) ==
    Then(minimize(st, SingleFun, SingleJac, SingleHess,
                  SingleTrials(hyperparam_guess), optimization_method),
         LAMBDA res :
    Then(find_optimal_sigma_sigma0(res.st, eta_of(res.v.x[1])), LAMBDA ss :
    Ok(Result(ss.v.sigma, ss.v.sigma0, eta_of(res.v.x[1]),
              IF Len(res.v.x) > 1 THEN Some(AbsSeq(Tail1(res.v.x)))
              ELSE ss.st.ds,
              Lp(-res.v.fun), res.v.nit), ss.st)))

maximize_likelihood(st, hyperparam_guess, optimization_method) ==
    Then(IF optimization_method = "chandrupatla"
         THEN chandrupatla_branch(st, hyperparam_guess)
         ELSE minimizer_branch(st, hyperparam_guess, optimization_method),
         LAMBDA r : Ok(WithTime(r.v), r.st))

(***************************************************************************)
(* DoubleProfileLikelihood                                                 *)
(***************************************************************************)
\* numpy.log(x): the natural logarithm, ln(10) = 2.303 grid decades
Ln(x) ==
    CASE x.k = "exp" -> Lin((x.v * 2303 + 500) \div 1000)
      [] x.k = "posinf" -> PosInf
      [] OTHER -> NegInf

\* (a variant that answers a failed inner run by running it once more)
Double_find_optimal_eta_retries(st, distance_scale, log_eta_guess) ==
    IF maximize_likelihood(set_distance_scale(st, distance_scale),
                           <<log_eta_guess>>, "Nelder-Mead").ok
    THEN Then(maximize_likelihood(set_distance_scale(st, distance_scale),
                                  <<log_eta_guess>>, "Nelder-Mead"),
              LAMBDA result : Ok(result.v.hyperparam.eta, result.st))
    ELSE Then(maximize_likelihood(
                set_distance_scale(
                    maximize_likelihood(
                        set_distance_scale(st, distance_scale),
                        <<log_eta_guess>>, "Nelder-Mead").st,
                    distance_scale),
                <<log_eta_guess>>, "Nelder-Mead"),
              LAMBDA result : Ok(result.v.hyperparam.eta, result.st))

\* (a variant that leaves the operator's distance_scale as it finds it)
Double_find_optimal_eta_no_set(st, distance_scale, log_eta_guess) ==
    Then(maximize_likelihood(st, <<log_eta_guess>>, "Nelder-Mead"),
         LAMBDA result : Ok(result.v.hyperparam.eta, result.st))

\* (a variant with the root search on the first derivative as inner solve)
Double_find_optimal_eta_root_finder(st, distance_scale, log_eta_guess) ==
    Then(find_likelihood_der1_zeros(set_distance_scale(st, distance_scale),
                                    interval_eta_of(log_eta_guess), Tol,
                                    max_iterations, num_bracket_trials),
         LAMBDA result : Ok(result.v.hyperparam.eta, result.st))

\* (a variant that hands the length-scales to the inner run as a guess)
Double_find_optimal_eta_full_guess(st, distance_scale, log_eta_guess) ==
    Then(maximize_likelihood(set_distance_scale(st, distance_scale),
                             <<log_eta_guess>> \o distance_scale,
                             "Nelder-Mead"),
         LAMBDA result : Ok(result.v.hyperparam.eta, result.st))

Double_find_optimal_eta(st, distance_scale, log_eta_guess) ==
    Then(maximize_likelihood(set_distance_scale(st, distance_scale),
                             <<log_eta_guess>>, "Nelder-Mead"),
         LAMBDA result : Ok(result.v.hyperparam.eta, result.st))

\* the steps likelihood, likelihood_jacobian and likelihood_hessian share:
\* [eta, hyperparam_full]
\* (a variant that starts the inner run on the operator as it finds it)
Double_full_hyperparam_keeps_scale(st, log_eta_guess, hyperparam) ==
    Then(maximize_likelihood(st, <<log_eta_guess>>, "Nelder-Mead"),
         LAMBDA result :
    Ok(<<Ln(result.v.hyperparam.eta)>> \o AbsSeq(hyperparam), result.st))

Double_full_hyperparam(st, log_eta_guess, hyperparam) ==
    Then(Double_find_optimal_eta(
            set_distance_scale(st, AbsSeq(hyperparam)), AbsSeq(hyperparam),
            log_eta_guess), LAMBDA eta :
    Ok(<<Ln(eta.v)>> \o AbsSeq(hyperparam), eta.st))

Double_likelihood(st, sign_switch, log_eta_guess, hyperparam) ==
    Then(Double_full_hyperparam(st, log_eta_guess, hyperparam), LAMBDA full :
    likelihood(full.st, sign_switch, Array(full.v)))

Double_likelihood_jacobian(st, sign_switch, log_eta_guess, hyperparam) ==
    Then(Double_full_hyperparam(st, log_eta_guess, hyperparam), LAMBDA full :
    Then(likelihood_der1_distance_scale(full.st, Array(full.v)), LAMBDA d :
    Ok(IF sign_switch THEN NegSeq(d.v) ELSE d.v, d.st)))

\* log_eta_guess is no parameter of likelihood_hessian: the name is unbound
\* when the call of _find_optimal_eta evaluates its arguments
Double_likelihood_hessian(st, sign_switch, hyperparam) ==
    Raise("NameError", set_distance_scale(st, AbsSeq(hyperparam)))

\* Trial points around a guess of length-scales only
DoubleTrials(x0) ==
    <<x0,
      [i \in 1..Len(x0) |-> -OtherScale(x0[i])],
      [i \in 1..Len(x0) |-> IF i = 1 THEN OtherScale(x0[i]) ELSE x0[i]]>>

DoubleFun(st, x) == Double_likelihood(st, TRUE, Lin(Scale), x)
DoubleJac(st, x) == Double_likelihood_jacobian(st, TRUE, Lin(Scale), x)
NoHess(st, x) == Ok(None, st)

Double_maximize_likelihood(st, hyperparam_guess, optimization_method) ==
    Then(minimize(st, DoubleFun, DoubleJac, NoHess,
                  DoubleTrials(hyperparam_guess), optimization_method),
         LAMBDA res :
    Then(Double_find_optimal_eta(res.st, AbsSeq(res.v.x), Lin(Scale)),
         LAMBDA eta :
    Then(find_optimal_sigma_sigma0(eta.st, eta.v), LAMBDA ss :
    Ok(WithTime(Result(ss.v.sigma, ss.v.sigma0, eta.v,
                       Some(AbsSeq(res.v.x)), Lp(-res.v.fun), res.v.nit)),
       ss.st))))

(***************************************************************************)
(* Inputs                                                                  *)
(***************************************************************************)
ScaleVals == {-MaxScale, 1}
PosVecs == UNION {[1..p -> {1, MaxScale}] : p \in 1..MaxDim}
PosScales == {Some(d) : d \in PosVecs}
OpScales == {None} \cup PosScales

LogEtas == {NegInf, Lin(-Scale), Lin(0), Lin(Scale),
            Lin(max_eta_exp * Scale), Lin(max_eta_exp * Scale + 2)}
Etas == {Zero, Exp(min_eta_exp * Scale - 2), Exp(min_eta_exp * Scale),
         Exp(0), Exp(max_eta_exp * Scale), Exp(max_eta_exp * Scale + 2),
         PosInf}

Arrays == UNION {{<<x>> \o d : x \in LogEtas, d \in [1..p -> ScaleVals]} :
                 p \in 0..MaxDim}
HyperParams == {Scalar(x) : x \in LogEtas} \cup {Array(a) : a \in Arrays}

Scenario(kind, root, half, slope, d2) ==
    [kind |-> kind, root |-> root, half |-> half, slope |-> slope,
     d2 |-> d2, s0 |-> 1 + half]

Scenarios ==
    {Scenario("peak", r, h, sl, -1) :
        r \in {-(2 * Scale), 0, Scale + 1}, h \in {0, 1},
        sl \in {1, MaxSlope}}
    \cup {Scenario(k, 0, 0, 1, d) : k \in {"pos", "neg"}, d \in {-1, 0, 1}}
    \cup {Scenario("plateau", 0, 0, 1, 1)}

(***************************************************************************)
(* The state machine: a caller issues calls on the shared operator         *)
(***************************************************************************)
Fresh(ds) == St(ds, <<>>)

\* The value a call leaves, under the name of the operation that returned it
\* or, for an exception on its way up, under "exception"
Keyed(key, val) == [o \in {key} |-> val]

IdleCall == [op |-> "idle", arg |-> None, pre |-> None, ok |-> TRUE,
             v |-> Keyed("idle", None), log |-> <<>>]

\* A call is issued when the previous one has returned to its caller
Call(op, arg, r) ==
    /\ last.op = "idle"
    /\ last' = [op |-> op, arg |-> arg, pre |-> cov_ds, ok |-> r.ok,
                v |-> Keyed(IF r.ok THEN op ELSE "exception", r.v),
                log |-> r.st.log]
    /\ cov_ds' = r.st.ds
    /\ UNCHANGED <<scn, fault>>

\* The evaluation claims do not read the shape of the derivative
EvalScenarios == {Scenario("peak", 0, h, 1, -1) : h \in {0, 1}}

Init ==
    /\ scn \in EvalScenarios
    /\ cov_ds \in OpScales
    /\ last = IdleCall
    /\ fault = 0

\* The caller takes the outcome of the call; the operator keeps its state
Return ==
    /\ last.op # "idle"
    /\ last' = IdleCall
    /\ UNCHANGED <<scn, cov_ds, fault>>

\* Another owner of the operator sets its distance_scale
SetDistanceScale ==
    \E d \in PosVecs :
        Call("set_distance_scale", [ds |-> d],
             Ok(None, set_distance_scale(Fresh(cov_ds), d)))

CallLikelihood ==
    \E s \in BOOLEAN, h \in HyperParams :
        Call("likelihood", [sign_switch |-> s, h |-> h],
             likelihood(Fresh(cov_ds), s, h))

CallDer1Eta ==
    \E h \in HyperParams :
        Call("likelihood_der1_eta", [h |-> h],
             likelihood_der1_eta(Fresh(cov_ds), h))

CallDer2Eta ==
    \E h \in HyperParams :
        Call("likelihood_der2_eta", [h |-> h],
             likelihood_der2_eta(Fresh(cov_ds), h))

CallJacobian ==
    \E s \in BOOLEAN, a \in Arrays :
        Call("likelihood_jacobian", [sign_switch |-> s, h |-> Array(a)],
             likelihood_jacobian(Fresh(cov_ds), s, Array(a)))

CallHessian ==
    \E s \in BOOLEAN, a \in Arrays :
        Call("likelihood_hessian", [sign_switch |-> s, h |-> Array(a)],
             likelihood_hessian(Fresh(cov_ds), s, Array(a)))

CallFindOptimalSigmaSigma0 ==
    \E eta \in Etas :
        Call("find_optimal_sigma_sigma0", [eta |-> eta],
             find_optimal_sigma_sigma0(Fresh(cov_ds), eta))

Next ==
    \/ Return
    \/ SetDistanceScale
    \/ CallLikelihood
    \/ CallDer1Eta
    \/ CallDer2Eta
    \/ CallJacobian
    \/ CallHessian
    \/ CallFindOptimalSigmaSigma0

Spec == Init /\ [][Next]_vars

(***************************************************************************)
(* The optimisation runs: the root search and the two maximize_likelihood  *)
(***************************************************************************)
Intervals == {<<Exp(-4 * Scale), Exp(3 * Scale)>>,
              <<Exp(-Scale), Exp(Scale)>>,
              <<Exp(0), Exp(Scale)>>}
MaxIters == {max_iterations, 1}

LogEtaGuesses == {Lin(-Scale), Lin(0), Lin(2 * Scale)}
\* log_eta_guess of the Double engine: 1.0, the value its
\* maximize_likelihood passes, and a guess a decade above it
DoubleLogEtaGuesses == {Lin(Scale), Lin(2 * Scale)}
GuessDims == {1, MaxDim}
GuessVecs == UNION {[1..p -> {-MaxScale, 1}] : p \in GuessDims}
Guesses == {<<g>> : g \in LogEtaGuesses}
           \cup {<<g>> \o d : g \in LogEtaGuesses, d \in GuessVecs}

InitOpt ==
    /\ scn \in Scenarios
    /\ cov_ds \in OpScales
    /\ last = IdleCall
    /\ fault = 0

CallFindZeros ==
    \E interval_eta \in Intervals, maxiter \in MaxIters :
        Call("find_likelihood_der1_zeros",
             [interval_eta |-> interval_eta, maxiter |-> maxiter],
             find_likelihood_der1_zeros(Fresh(cov_ds), interval_eta, Tol,
                                        maxiter, num_bracket_trials))

CallMaximize ==
    \E guess \in Guesses, method \in Methods \cup {"chandrupatla"} :
        Call("maximize_likelihood", [guess |-> guess, method |-> method],
             maximize_likelihood(Fresh(cov_ds), guess, method))

CallDoubleMaximize ==
    \E guess \in GuessVecs, method \in {"Nelder-Mead", "BFGS"} :
        Call("Double.maximize_likelihood",
             [scales |-> guess, method |-> method],
             Double_maximize_likelihood(Fresh(cov_ds), guess, method))

\* The objective and the Jacobian the outer optimizer of the Double engine
\* sees, called the way scipy.optimize.minimize calls them
CallDoubleLikelihood ==
    \E s \in BOOLEAN, g \in DoubleLogEtaGuesses, d \in GuessVecs :
        Call("Double.likelihood",
             [sign_switch |-> s, log_eta_guess |-> g, scales |-> d],
             Double_likelihood(Fresh(cov_ds), s, g, d))

CallDoubleJacobian ==
    \E s \in BOOLEAN, g \in DoubleLogEtaGuesses, d \in GuessVecs :
        Call("Double.likelihood_jacobian",
             [sign_switch |-> s, log_eta_guess |-> g, scales |-> d],
             Double_likelihood_jacobian(Fresh(cov_ds), s, g, d))

\* The inner solve on its own, for length-scales the caller made positive
CallDoubleFindOptimalEta ==
    \E d \in PosVecs, g \in DoubleLogEtaGuesses :
        Call("Double._find_optimal_eta",
             [distance_scale |-> d, log_eta_guess |-> g],
             Double_find_optimal_eta(Fresh(cov_ds), d, g))

CallDoubleHessian ==
    \E s \in BOOLEAN, d \in GuessVecs :
        Call("Double.likelihood_hessian", [sign_switch |-> s, scales |-> d],
             Double_likelihood_hessian(Fresh(cov_ds), s, d))

NextOpt ==
    \/ Return
    \/ SetDistanceScale
    \/ CallFindZeros
    \/ CallMaximize
    \/ CallDoubleMaximize
    \/ CallDoubleLikelihood
    \/ CallDoubleJacobian
    \/ CallDoubleFindOptimalEta
    \/ CallDoubleHessian

SpecOpt == InitOpt /\ [][NextOpt]_vars

(***************************************************************************)
(* The optimisation runs on an operator that fails at one of its calls     *)
(***************************************************************************)
FaultScenarios == {Scenario("peak", 0, 0, 1, -1), Scenario("pos", 0, 0, 1, 1)}

InitFault ==
    /\ scn \in FaultScenarios
    /\ cov_ds \in OpScales
    /\ last = IdleCall
    /\ fault \in 1..MaxFault

SpecFault == InitFault /\ [][NextOpt]_vars

(***************************************************************************)
(* The eta interval of the 'chandrupatla' branch over the range of a       *)
(* double                                                                  *)
(***************************************************************************)
FarGuesses == {<<Lin(j * Scale)>> : j \in (-MaxDecade)..MaxDecade}

CallIntervalEta ==
    \E guess \in FarGuesses :
        Call("interval_eta", [guess |-> guess],
             chandrupatla_interval(Fresh(cov_ds), guess))

NextInterval ==
    \/ Return
    \/ CallIntervalEta

SpecInterval == Init /\ [][NextInterval]_vars

(***************************************************************************)
(* Properties                                                              *)
(***************************************************************************)
\* The evaluation named by a call record, run again from operator state ds
Eval(op, arg, ds) ==
    CASE op = "likelihood" -> likelihood(Fresh(ds), arg.sign_switch, arg.h)
      [] op = "likelihood_jacobian" ->
            likelihood_jacobian(Fresh(ds), arg.sign_switch, arg.h)
      [] op = "likelihood_hessian" ->
            likelihood_hessian(Fresh(ds), arg.sign_switch, arg.h)
Outcome(r) == <<r.ok, r.v>>

\* What the last call returned, or the exception it raised
Ret == last.v[last.op]
Exc == last.v["exception"]
LastOutcome == <<last.ok, IF last.ok THEN Ret ELSE Exc>>
Evaluations == {"likelihood", "likelihood_jacobian", "likelihood_hessian"}
LargeEta(h) == GeqPow10(eta_of(log_eta_of(h)), max_eta_exp)

\* C1: likelihood with sign_switch=True returns exactly the negation of what
\* it returns with sign_switch=False for the same hyperparam and the same
\* operator state, in the large-eta branch and in the general branch.
C1_SignSwitchNegates ==
    (last.op = "likelihood" /\ last.ok) =>
        LET other == likelihood(Fresh(last.pre), ~last.arg.sign_switch,
                                last.arg.h)
        IN  other.ok /\ other.v = -Ret /\ other.st.ds = cov_ds

C1_Witness ==
    /\ last.op = "likelihood" /\ last.ok /\ last.arg.sign_switch
    /\ LargeEta(last.arg.h) /\ Ret # 0

\* C2: a second call of likelihood with the same arguments, made right after
\* the first with nobody else touching the operator, returns the same value.
C2_Idempotent ==
    (last.op = "likelihood" /\ last.ok) =>
        LET again == likelihood(Fresh(cov_ds), last.arg.sign_switch,
                                last.arg.h)
        IN  again.ok /\ again.v = Ret /\ again.st.ds = cov_ds

C2_Witness ==
    /\ last.op = "likelihood" /\ last.ok /\ ~LargeEta(last.arg.h)
    /\ ~isscalar(last.arg.h) /\ size(last.arg.h) > 1
    /\ last.pre # None /\ last.pre # cov_ds

\* C3 (as stated): the outcome of an objective, Jacobian or Hessian
\* evaluation never depends on the distance_scale an earlier evaluation (or
\* anybody else) left on the operator.
C3_PureForEveryHyperparam ==
    (last.op \in Evaluations /\ last.pre # None) =>
        \A ds \in PosScales :
            Outcome(Eval(last.op, last.arg, ds)) = LastOutcome

\* C3 (amended): the outcome is a function of the hyperparameter alone when
\* the hyperparameter carries length-scale entries; an eta-only evaluation
\* leaves the operator's distance_scale as it found it.
C3_PureWithLengthScales ==
    (last.op \in Evaluations) =>
        IF (~isscalar(last.arg.h)) /\ size(last.arg.h) > 1
        THEN \A ds \in OpScales :
                Outcome(Eval(last.op, last.arg, ds)) = LastOutcome
        ELSE cov_ds = last.pre

C3_Witness ==
    /\ last.op = "likelihood_jacobian" /\ last.ok
    /\ size(last.arg.h) > 1
    /\ last.pre # None /\ last.pre # cov_ds

\* C7: for eta = inf find_optimal_sigma_sigma0 returns sigma = 0 and the OLS
\* estimator as sigma0 without any solve; for a finite eta above 1e16 it
\* returns the same sigma0 and sigma = sigma0/sqrt(eta).
C7_LargeEtaSigmas ==
    (last.op = "find_optimal_sigma_sigma0"
        /\ GtPow10(last.arg.eta, max_eta_exp)) =>
        /\ last.ok
        /\ Ret.sigma0 = find_optimal_sigma0
        /\ last.log = <<>>
        /\ IF last.arg.eta = PosInf THEN Ret.sigma = Zero
           ELSE Ret.sigma = Div(find_optimal_sigma0, Sqrt(last.arg.eta))

C7_Witness ==
    /\ last.op = "find_optimal_sigma_sigma0" /\ last.arg.eta = PosInf
    /\ last.pre = None /\ last.ok /\ Ret.sigma = Zero

In(log, what) == \E i \in 1..Len(log) : log[i] = what

\* what comes at some place of the log with no `other` before it
Before(log, what, other) ==
    \E i \in 1..Len(log) :
        log[i] = what /\ \A j \in 1..(i - 1) : log[j] # other

Maximizers == {"maximize_likelihood", "Double.maximize_likelihood"}

Der1At(x, ds) == OpDlpDeta(x, ds)

\* The derivative has one sign change, from + to -, inside the interval
UniqueInteriorMaximum(interval_eta, ds) ==
    /\ ds # None
    /\ scn.kind = "peak"
    /\ Der1At(Log10(interval_eta[1]).v, ds) > 0
    /\ Der1At(Log10(interval_eta[2]).v, ds) < 0

InsideInterval(eta, interval_eta) ==
    /\ eta.k = "exp"
    /\ Log10(interval_eta[1]).v <= eta.v
    /\ eta.v <= Log10(interval_eta[2]).v

ZerosCase ==
    /\ last.op = "find_likelihood_der1_zeros"
    /\ UniqueInteriorMaximum(last.arg.interval_eta, last.pre)

\* C5 (as stated): with one sign change of the derivative inside the search
\* interval, find_likelihood_der1_zeros returns an eta inside the interval
\* at which |likelihood_der1_eta| < tol (max_iterations at its default).
C5_DerivativeBelowTol ==
    (ZerosCase /\ last.arg.maxiter = max_iterations) =>
        /\ last.ok
        /\ InsideInterval(Ret.hyperparam.eta, last.arg.interval_eta)
        /\ Abs(Der1At(Ret.hyperparam.eta.v, cov_ds)) < Tol

\* a zero or a sign change of the derivative lies within
\* eps_a + eps_m*|x| of x, with eps_a = eps_m = tol
SignChangeWithinTol(x, ds, tol) ==
    \E y \in (x - 2 * tol * max_eta_exp)..(x + 2 * tol * max_eta_exp) :
        /\ WidthBelowTol(Abs(y - x), x, tol, tol)
        /\ Sign(Der1At(y, ds)) * Sign(Der1At(x, ds)) <= 0

\* C5 (amended): with one sign change of the derivative inside the search
\* interval, find_likelihood_der1_zeros takes the bracket-found path and
\* returns an eta inside the interval; the derivative has a zero or changes
\* sign within the stopping width tol + tol*|log10 eta| of log10 eta, unless
\* the iteration count reached max_iterations.
C5_RootWithinStoppingWidth ==
    ZerosCase =>
        /\ last.ok
        /\ InsideInterval(Ret.hyperparam.eta, last.arg.interval_eta)
        /\ \/ Ret.optimization.iter = last.arg.maxiter
           \/ SignChangeWithinTol(Ret.hyperparam.eta.v, cov_ds, Tol)

C5_Witness ==
    /\ ZerosCase /\ last.ok
    /\ Ret.optimization.iter > 0
    /\ Ret.optimization.iter < last.arg.maxiter
    /\ Abs(Der1At(Ret.hyperparam.eta.v, cov_ds)) >= Tol

\* eta = 10^j as the fraction num/den, j = x/Scale in -2..2
EtaNum(x) == IF x >= 0 THEN 10 ^ (x \div Scale) ELSE 1
EtaDen(x) == IF x >= 0 THEN 1 ELSE 10 ^ ((-x) \div Scale)

\* C6: the value likelihood_der1_eta returns for log_eta is the derivative of
\* the likelihood in log_eta, d(lp)/d(eta) * eta * ln(10), to within 1e-4
\* relative error for eta in [1e-2, 1e2].
C6_Der1EtaIsDerivativeInLogEta ==
    (/\ last.op = "likelihood_der1_eta" /\ last.ok
     /\ isscalar(last.arg.h) /\ last.arg.h.x.k = "lin"
     /\ last.arg.h.x.v \in {j * Scale : j \in -2..2}) =>
        LET x == last.arg.h.x.v
            dlp_deta == OpDlpDeta(x, cov_ds)
            \* d(lp)/d(log_eta) * 1000 * EtaDen
            expected == dlp_deta * EtaNum(x) * 2303
            returned == Ret.x * 1000 * EtaDen(x)
        IN  Abs(returned - expected) <= Abs(expected) \div 10000

ChandrupatlaCall ==
    /\ last.op = "maximize_likelihood"
    /\ last.arg.method = "chandrupatla"

\* C8: a 'chandrupatla' maximize_likelihood with a guess longer than one and
\* the operator's distance_scale already set warns, ignores the length-scale
\* entries of the guess (the outcome is that of the guess cut to log_eta),
\* leaves the operator's distance_scale as it was, and returns that
\* distance_scale.
C8_GuessScalesIgnored ==
    (ChandrupatlaCall /\ Len(last.arg.guess) > 1 /\ last.pre # None) =>
        /\ In(last.log, WarnIgnored)
        /\ ~In(last.log, "set_distance_scale")
        /\ cov_ds = last.pre
        /\ last.ok => Ret.hyperparam.distance_scale = last.pre
        /\ Outcome(maximize_likelihood(Fresh(last.pre),
                                       <<last.arg.guess[1]>>,
                                       "chandrupatla")) = LastOutcome

C8_Witness ==
    /\ ChandrupatlaCall /\ last.ok
    /\ Len(last.arg.guess) > 1 /\ last.pre # None
    /\ last.pre.v # Tail1(last.arg.guess)
    /\ Ret.hyperparam.distance_scale = last.pre

\* C9: a 'chandrupatla' maximize_likelihood made while the operator's
\* distance_scale is unset warns and sets the distance_scale from the guess
\* before any solve is issued, whatever the length of the guess.
C9_UnsetScaleInitializedWithWarning ==
    (ChandrupatlaCall /\ last.pre = None) =>
        /\ In(last.log, WarnSetFromGuess)
        /\ Before(last.log, "set_distance_scale", "solve")

NoBracket ==
    /\ last.op = "find_likelihood_der1_zeros"
    /\ LET br == find_interval_with_sign_change(
                    Fresh(last.pre),
                    <<Log10(last.arg.interval_eta[1]).v,
                      Log10(last.arg.interval_eta[2]).v>>,
                    num_bracket_trials)
       IN  br.ok /\ ~br.v.found

\* the derivative at the ends of the last bracket tried
EndValues ==
    find_interval_with_sign_change(
        Fresh(last.pre),
        <<Log10(last.arg.interval_eta[1]).v,
          Log10(last.arg.interval_eta[2]).v>>,
        num_bracket_trials).v.values

BothPositive(values) == values[1] > 0 /\ values[2] > 0
BothNegative(values) == values[1] < 0 /\ values[2] < 0

\* C10: on the no-bracket path of find_likelihood_der1_zeros, end values that
\* are neither both strictly positive nor both strictly negative end the call
\* in an error with no result record, and a call that returns on this path
\* returns eta = 0 or eta = inf.
C10_NoBracketInconsistentSignsFatal ==
    NoBracket =>
        /\ (~BothPositive(EndValues) /\ ~BothNegative(EndValues))
                => ~last.ok
        /\ last.ok => Ret.hyperparam.eta \in {Zero, PosInf}

C10_Witness ==
    /\ NoBracket /\ ~last.ok
    /\ EndValues[1] = 0 /\ EndValues[2] > 0
    /\ Exc = "UnboundLocalError"

OpNames == {"solve", "logdet", "traceinv", "get_matrix", "dot"}

\* The operator call at place i of the log raised: it was issued with the
\* distance_scale unset, or it is the call that hits the singular matrix
UnsetAt(i) ==
    /\ last.pre = None
    /\ \A j \in 1..(i - 1) : last.log[j] # "set_distance_scale"
Failed(i) ==
    /\ i \in 1..Len(last.log)
    /\ last.log[i] \in OpNames
    /\ (UnsetAt(i) \/ i = fault)

\* C11: an error raised by the covariance operator during an evaluation
\* inside maximize_likelihood of either engine reaches the caller: the call
\* returns no record, and the failing operator call is the last thing the
\* call did (nothing is caught, nothing is evaluated again).
C11_OperatorErrorPropagates ==
    (last.op \in Maximizers) =>
        \A i \in 1..Len(last.log) :
            Failed(i) =>
                /\ ~last.ok
                /\ Exc \in {"ScaleUnset", "LinAlgError"}
                /\ i = Len(last.log)

C11_Witness ==
    /\ last.op = "Double.maximize_likelihood"
    /\ ~last.ok /\ Exc = "LinAlgError"
    /\ fault > 6 /\ Failed(fault)

\* The bracket search and the refinement a find_likelihood_der1_zeros call
\* makes, run again from the operator state the call found
RootSearch ==
    find_interval_with_sign_change(
        Fresh(last.pre),
        <<Log10(last.arg.interval_eta[1]).v,
          Log10(last.arg.interval_eta[2]).v>>,
        num_bracket_trials)
Refined ==
    chandrupatla_method(RootSearch.st, RootSearch.v.bracket,
                        RootSearch.v.values, Tol, Tol, last.arg.maxiter)

\* the root-finder used up its iterations
Exhausted ==
    /\ last.op = "find_likelihood_der1_zeros"
    /\ RootSearch.ok /\ RootSearch.v.found
    /\ Refined.ok /\ Refined.v.iterations = last.arg.maxiter

\* the run of the minimizer a maximize_likelihood call makes; the engines
\* never read res.success, so every run stands for a converged and for a
\* stopped one
MinimizerRun ==
    minimize(Fresh(last.pre), SingleFun, SingleJac, SingleHess,
             SingleTrials(last.arg.guess), last.arg.method)
ZerosRun ==
    find_likelihood_der1_zeros(
        chandrupatla_guess(Fresh(last.pre), last.arg.guess),
        interval_eta_of(last.arg.guess[1]), Tol, max_iterations,
        num_bracket_trials)

\* C12: a root-finder that reaches max_iterations and a minimizer that stops
\* (converged or not) do not make the call raise: the record is built from
\* the last iterate and optimization.iter is the count the root-finder or
\* the minimizer reports.
C12_ExhaustionReturnsRecord ==
    /\ Exhausted =>
        /\ last.ok
        /\ Ret.optimization.iter = last.arg.maxiter
        /\ Ret.hyperparam.eta = Pow10(Lin(Refined.v.root))
    /\ ChandrupatlaCall =>
        LET zeros == ZerosRun
        IN  zeros.ok =>
                /\ last.ok
                /\ Ret.optimization.iter = zeros.v.optimization.iter
                /\ Ret.hyperparam.eta = zeros.v.hyperparam.eta
    /\ (last.op = "maximize_likelihood" /\ last.arg.method \in Methods) =>
        LET res == MinimizerRun
        IN  res.ok =>
                /\ last.ok
                /\ Ret.optimization.iter = res.v.nit
                /\ Ret.hyperparam.eta = eta_of(res.v.x[1])
                /\ Ret.optimization.max_likelihood = Lp(-res.v.fun)

C12_Witness ==
    /\ Exhausted /\ last.ok
    /\ last.arg.maxiter < max_iterations
    /\ Ret.optimization.iter = last.arg.maxiter
    /\ ~SignChangeWithinTol(Refined.v.root, cov_ds, Tol)

DoubleReturned == last.op = "Double.maximize_likelihood" /\ last.ok

\* C13: DoubleProfileLikelihood.maximize_likelihood closes with
\* distance_scale = abs(res.x), then the optimal eta at that distance_scale,
\* then sigma and sigma0 from that eta: the returned eta, sigma and sigma0
\* are the ones an operator holding the returned distance_scale gives.
C13_ClosingStepsAtReturnedScale ==
    DoubleReturned =>
        LET ds == Ret.hyperparam.distance_scale
            eta == Double_find_optimal_eta(Fresh(ds), ds.v, Lin(Scale))
            ss == find_optimal_sigma_sigma0(Fresh(ds), Ret.hyperparam.eta)
        IN  /\ cov_ds = ds
            /\ eta.ok /\ eta.v = Ret.hyperparam.eta
            /\ ss.ok
            /\ ss.v.sigma = Ret.hyperparam.sigma
            /\ ss.v.sigma0 = Ret.hyperparam.sigma0

\* the returned optimum is not the trial point the minimizer evaluated last
C13_Witness ==
    /\ DoubleReturned
    /\ Ret.hyperparam.distance_scale
            # Some(AbsSeq(DoubleTrials(last.arg.scales)[3]))
    /\ Ret.hyperparam.eta.k = "exp"

\* C14: in the general-minimizer branch with a guess that holds
\* length-scales, sigma and sigma0 are computed with the operator's
\* distance_scale equal to the returned distance_scale abs(res.x[1:]),
\* whichever trial point the minimizer evaluated last.
C14_SigmaAtReturnedOptimum ==
    (/\ last.op = "maximize_likelihood" /\ last.ok
     /\ last.arg.method \in Methods /\ Len(last.arg.guess) > 1) =>
        LET ds == Ret.hyperparam.distance_scale
            ss == find_optimal_sigma_sigma0(Fresh(ds), Ret.hyperparam.eta)
        IN  /\ cov_ds = ds
            /\ ss.v.sigma = Ret.hyperparam.sigma
            /\ ss.v.sigma0 = Ret.hyperparam.sigma0

\* the Hessian the blocks of the analytic derivatives make up, for p
\* length-scale entries: row and column 1 belong to eta
HessianEntry(h, i, j) ==
    LET eta == eta_of(log_eta_of(h))
        ds == AbsSeq(Tail1(h.a))
    IN  IF i = 1 /\ j = 1
        THEN OpD2lpDeta2(EtaLog(eta), IF size(h) > 1 THEN Some(ds) ELSE cov_ds)
        ELSE IF i = 1 THEN OpDer2Mixed(eta, ds, j - 1)
        ELSE IF j = 1 THEN OpDer2Mixed(eta, ds, i - 1)
        ELSE OpDer2Scale(eta, ds, i - 1, j - 1)

HessianCase(p) ==
    /\ last.op = "likelihood_hessian"
    /\ size(last.arg.h) = 1 + p
    /\ (p > 0 \/ last.pre # None)

\* C15: for a hyperparameter with p >= 0 length-scale entries
\* likelihood_hessian returns a symmetric (1+p) x (1+p) matrix made of the
\* eta second derivative, the mixed derivatives and the length-scale second
\* derivatives, negated under sign_switch; for every p, p >= 2 included.
C15_HessianSymmetricBlocks ==
    \A p \in 0..MaxDim :
        HessianCase(p) =>
            /\ last.ok
            /\ Len(Ret) = 1 + p
            /\ \A i, j \in 1..(1 + p) :
                /\ Len(Ret[i]) = 1 + p
                /\ Ret[i][j] = Ret[j][i]
                /\ Ret[i][j] = switch_sign(last.arg.sign_switch,
                                           HessianEntry(last.arg.h, i, j))

\* C16: on the no-sign-change path of find_likelihood_der1_zeros the second
\* derivative consulted for the choice between eta = 0 and eta = inf is the
\* analytic second derivative at eta = 0: the eta returned is the one that
\* value selects.
C16_SecondDerivativeAtEtaZero ==
    (NoBracket /\ last.ok) =>
        Ret.hyperparam.eta =
            eta_without_bracket(EndValues[1], EndValues[2],
                                OpD2lpDeta2(EtaLog(Zero), cov_ds))

\* The search of a 'chandrupatla' call, run again over a given eta interval
SearchOver(interval_eta) ==
    find_likelihood_der1_zeros(
        chandrupatla_guess(Fresh(last.pre), last.arg.guess),
        interval_eta, Tol, max_iterations, num_bracket_trials)

\* the call did what a search over that interval does: the same operator
\* calls, the same eta and iteration count, or the same exception
SearchedOver(interval_eta) ==
    LET z == SearchOver(interval_eta)
    IN  IF z.ok
        THEN /\ last.ok
             /\ Ret.hyperparam.eta = z.v.hyperparam.eta
             /\ Ret.optimization.iter = z.v.optimization.iter
             /\ Len(last.log) >= Len(z.st.log)
             /\ SubSeq(last.log, 1, Len(z.st.log)) = z.st.log
        ELSE ~last.ok /\ Exc = z.v /\ last.log = z.st.log

\* the exponents of the guess: g = Scale * log_eta_guess
GuessExp == last.arg.guess[1].v

NoOperatorCall == \A i \in 1..Len(last.log) : last.log[i] \notin OpNames

\* C18: likelihood and find_optimal_sigma_sigma0 take the large-eta branch
\* (OLS, no covariance solve) for the same eta, namely |eta| >= 1e16, the
\* value 1e16 included; and on the general branch find_optimal_sigma_sigma0
\* returns sigma0 = 0 exactly when |eta| < 1e-16.
C18_SameLargeEtaBranch ==
    /\ (last.op = "likelihood") =>
        (NoOperatorCall <=> LargeEta(last.arg.h))
    /\ (last.op = "find_optimal_sigma_sigma0") =>
        /\ NoOperatorCall <=> GeqPow10(last.arg.eta, max_eta_exp)
        /\ (last.ok /\ ~NoOperatorCall) =>
            (Ret.sigma0 = Zero <=> LtPow10(last.arg.eta, min_eta_exp))

\* The eta the inner solve of the Double engine returns for the length-scales
\* of the last call, and the operator state it leaves
InnerEta ==
    Double_find_optimal_eta(Fresh(Some(AbsSeq(last.arg.scales))),
                            AbsSeq(last.arg.scales), last.arg.log_eta_guess)

\* C19: DoubleProfileLikelihood.likelihood hands the Single engine
\* [log10(eta*), distance_scale], eta* the eta of the inner solve, so that
\* the value it returns is the Single likelihood at exactly eta*.
C19_DoubleLikelihoodAtInnerEta ==
    (last.op = "Double.likelihood" /\ last.ok) =>
        /\ InnerEta.ok
        /\ Ret = likelihood(InnerEta.st, last.arg.sign_switch,
                            Array(<<Log10(InnerEta.v)>>
                                  \o AbsSeq(last.arg.scales))).v

\* C20: for p length-scales DoubleProfileLikelihood.likelihood_jacobian
\* returns exactly p entries, as many as the hyperparam it was given: the
\* distance-scale block of the Single engine's first derivative at the eta
\* of the inner solve, with no entry for eta, negated under sign_switch.
C20_DoubleJacobianScaleBlock ==
    (last.op = "Double.likelihood_jacobian") =>
        /\ last.ok /\ InnerEta.ok
        /\ Len(Ret) = Len(last.arg.scales)
        /\ \A p \in 1..Len(last.arg.scales) :
            Ret[p] = switch_sign(last.arg.sign_switch,
                                 OpDer1Scale(InnerEta.v,
                                             AbsSeq(last.arg.scales), p))

DoubleEvaluation ==
    last.op \in {"Double.likelihood", "Double.likelihood_jacobian"}

\* the entries of `part` stand in a row somewhere in `log`
Segment(log, part) ==
    \E i \in 0..(Len(log) - Len(part)) :
        SubSeq(log, i + 1, i + Len(part)) = part

\* What the two candidate inner solves ask of an operator that holds the
\* length-scales of the last call: the root search on the first derivative,
\* and the Single engine's maximize_likelihood on the guess [log_eta_guess]
InnerRootSearch ==
    find_likelihood_der1_zeros(
        Fresh(Some(AbsSeq(last.arg.scales))),
        interval_eta_of(last.arg.log_eta_guess), Tol, max_iterations,
        num_bracket_trials)
InnerMaximize ==
    maximize_likelihood(Fresh(Some(AbsSeq(last.arg.scales))),
                        <<last.arg.log_eta_guess>>, "Nelder-Mead")

\* C21 (as stated): at every outer evaluation of the Double engine the inner
\* solve for eta invokes the root-finder find_likelihood_der1_zeros.
C21_InnerSolveIsRootFinder ==
    DoubleEvaluation =>
        /\ InnerRootSearch.ok
        /\ Segment(last.log, InnerRootSearch.st.log)

\* C21 (amended): at every outer evaluation of the Double engine the inner
\* solve for eta invokes the Single engine's maximize_likelihood with method
\* Nelder-Mead on the guess [log_eta_guess]; the first derivative in eta, the
\* function of the root-finder, is not evaluated.
C21_InnerSolveIsMaximize ==
    DoubleEvaluation =>
        /\ InnerMaximize.ok
        /\ Segment(last.log, InnerMaximize.st.log)
        /\ ~In(last.log, "traceinv")

C21_Witness ==
    /\ last.op = "Double.likelihood_jacobian" /\ last.ok
    /\ InnerRootSearch.ok /\ InnerMaximize.ok
    /\ InnerRootSearch.v.hyperparam.eta # InnerMaximize.v.hyperparam.eta
    /\ Len(InnerMaximize.st.log) >= 12

\* The inner optimization of a _find_optimal_eta call, run on an operator
\* that holds the distance_scale the call was given
InnerOptimization ==
    maximize_likelihood(Fresh(Some(last.arg.distance_scale)),
                        <<last.arg.log_eta_guess>>, "Nelder-Mead")

\* C22: _find_optimal_eta sets the given distance_scale on the operator
\* before the inner optimization starts, runs the Single engine's
\* maximize_likelihood on the guess [log_eta_guess] with Nelder-Mead and
\* returns that result's eta; no evaluation of the inner optimization changes
\* the operator's distance_scale.
C22_InnerSolveAtGivenScale ==
    (last.op = "Double._find_optimal_eta") =>
        /\ last.log = <<"set_distance_scale">> \o InnerOptimization.st.log
        /\ \A i \in 2..Len(last.log) : last.log[i] # "set_distance_scale"
        /\ cov_ds = Some(last.arg.distance_scale)
        /\ last.ok = InnerOptimization.ok
        /\ last.ok => Ret = InnerOptimization.v.hyperparam.eta

C22_Witness ==
    /\ last.op = "Double._find_optimal_eta" /\ last.ok
    /\ last.pre \notin {None, Some(last.arg.distance_scale)}
    /\ Len(last.log) > 12
    /\ Ret.k = "exp"

\* The arrays that differ from a only in the signs of the length-scale
\* entries
SignFlips(a) ==
    {[i \in 1..Len(a) |-> IF i = 1 THEN a[1] ELSE sg[i - 1] * a[i]] :
        sg \in [1..(Len(a) - 1) -> {-1, 1}]}

WithLengthScales(h) == (~isscalar(h)) /\ size(h) > 1

\* C23: for a hyperparameter of length > 1 likelihood sets the operator's
\* distance_scale to abs(hyperparam[1:]) before any solve, so likelihood(h)
\* equals likelihood(h') whenever h' differs from h only in the signs of the
\* length-scale entries.
C23_SignOfScalesIrrelevant ==
    (last.op = "likelihood" /\ WithLengthScales(last.arg.h)) =>
        /\ last.log[1] = "set_distance_scale"
        /\ cov_ds = Some(AbsSeq(Tail1(last.arg.h.a)))
        /\ \A a \in SignFlips(last.arg.h.a) :
            LET flipped == likelihood(Fresh(last.pre), last.arg.sign_switch,
                                      Array(a))
            IN  /\ Outcome(flipped) = LastOutcome
                /\ flipped.st.ds = cov_ds

C23_Witness ==
    /\ last.op = "likelihood" /\ last.ok
    /\ WithLengthScales(last.arg.h) /\ ~LargeEta(last.arg.h)
    /\ \E i \in 2..size(last.arg.h) : last.arg.h.a[i] < 0
    /\ \E i \in 2..size(last.arg.h) : last.arg.h.a[i] > 0
    /\ last.pre # cov_ds

Count(log, what) == Cardinality({i \in 1..Len(log) : log[i] = what})

\* Evaluations of the derivative: each one asks the operator for one trace.
\* The bracket search evaluates the two ends and, per round, the midpoint
\* and the two ends of the widened interval.
BracketEvaluations == 2 + 3 * num_bracket_trials

\* C24: find_likelihood_der1_zeros always terminates: the bracket search
\* makes at most num_bracket_trials rounds, the refinement at most
\* max_iterations iterations, and it stops earlier once the bracket width is
\* below eps_a + eps_m*|root|.
C24_RootSearchTerminates ==
    (last.op = "find_likelihood_der1_zeros") =>
        /\ Count(RootSearch.st.log, "traceinv") <= BracketEvaluations
        /\ Count(last.log, "traceinv")
                <= BracketEvaluations + last.arg.maxiter + 1
        /\ last.ok => Ret.optimization.iter <= last.arg.maxiter
        /\ (last.ok /\ RootSearch.v.found
                /\ Ret.optimization.iter < last.arg.maxiter) =>
            SignChangeWithinTol(Ret.hyperparam.eta.v, cov_ds, Tol)

C24_Witness ==
    /\ last.op = "find_likelihood_der1_zeros" /\ last.ok
    /\ RootSearch.v.found
    /\ Count(RootSearch.st.log, "traceinv") > 2
    /\ Ret.optimization.iter = last.arg.maxiter
    /\ ~SignChangeWithinTol(Ret.hyperparam.eta.v, cov_ds, Tol)

\* C25: in the 'chandrupatla' branch of maximize_likelihood the returned
\* optimization.max_likelihood is the value of ProfileLikelihood.likelihood
\* at the returned hyperparam.eta, whether the root search returned a
\* positive interior root, eta = 0 or eta = infinity.
C25_MaxLikelihoodAtReturnedEta ==
    (ChandrupatlaCall /\ last.ok) =>
        Ret.optimization.max_likelihood =
            Lp(likelihood(Fresh(cov_ds), FALSE,
                          Scalar(Log10(Ret.hyperparam.eta))).v)

\* The Double evaluation named by a call record, run again from operator
\* state ds
DoubleEval(op, arg, ds) ==
    IF op = "Double.likelihood"
    THEN Double_likelihood(Fresh(ds), arg.sign_switch, arg.log_eta_guess,
                           arg.scales)
    ELSE Double_likelihood_jacobian(Fresh(ds), arg.sign_switch,
                                    arg.log_eta_guess, arg.scales)

\* C26: when a call of DoubleProfileLikelihood.likelihood or
\* likelihood_jacobian with length-scales h returns, the operator's
\* distance_scale is abs(h), and the value returned for h is the same
\* whatever the calls made before it left on the operator.
C26_DoubleEvaluationLeavesAbsScale ==
    (DoubleEvaluation /\ last.ok) =>
        /\ cov_ds = Some(AbsSeq(last.arg.scales))
        /\ \A ds \in OpScales :
            LET again == DoubleEval(last.op, last.arg, ds)
            IN  Outcome(again) = LastOutcome /\ again.st.ds = cov_ds

C26_Witness ==
    /\ DoubleEvaluation /\ last.ok
    /\ last.pre \notin {None, cov_ds}
    /\ \E i \in 1..Len(last.arg.scales) : last.arg.scales[i] < 0

\* The second derivative value the no-bracket path consults
SecondDerivativeValue ==
    likelihood_der2_eta(RootSearch.st, Scalar(Zero)).v.x

\* C27: a result returned on the no-bracket path of
\* find_likelihood_der1_zeros has iter = 0 and eta by the table: end
\* derivatives both > 0 give eta = 0 if the second derivative value is > 0
\* and eta = infinity otherwise; both < 0 give eta = 0 if it is < 0 and
\* eta = infinity otherwise; sigma and sigma0 are computed from that eta.
C27_NoBracketTable ==
    (NoBracket /\ last.ok) =>
        /\ Ret.optimization.iter = 0
        /\ BothPositive(EndValues) \/ BothNegative(EndValues)
        /\ BothPositive(EndValues) =>
            Ret.hyperparam.eta =
                (IF SecondDerivativeValue > 0 THEN Zero ELSE PosInf)
        /\ BothNegative(EndValues) =>
            Ret.hyperparam.eta =
                (IF SecondDerivativeValue < 0 THEN Zero ELSE PosInf)
        /\ LET ss == find_optimal_sigma_sigma0(Fresh(cov_ds),
                                               Ret.hyperparam.eta)
           IN  /\ ss.ok
               /\ Ret.hyperparam.sigma = ss.v.sigma
               /\ Ret.hyperparam.sigma0 = ss.v.sigma0

C27_Witness ==
    /\ NoBracket /\ last.ok
    /\ BothNegative(EndValues)
    /\ SecondDerivativeValue > 0
    /\ Ret.hyperparam.eta = PosInf
    /\ Ret.hyperparam.sigma = Zero

IntervalCall == last.op = "interval_eta"

\* 0 < lo <= 1e-4, hi >= 1e3, lo <= 10^g <= hi, log10 of both finite and
\* log10(lo) < log10(hi), for the interval <<lo, hi>> and g = log_eta_guess
GoodInterval(interval_eta, g) ==
    /\ interval_eta[1].k = "exp" /\ interval_eta[2].k = "exp"
    /\ interval_eta[1].v <= -4 * Scale
    /\ interval_eta[2].v >= 3 * Scale
    /\ interval_eta[1].v <= g /\ g <= interval_eta[2].v
    /\ Log10(interval_eta[1]).k = "lin" /\ Log10(interval_eta[2]).k = "lin"
    /\ Log10(interval_eta[1]).v < Log10(interval_eta[2]).v

\* C28 (as stated): for every finite log_eta_guess the eta interval of the
\* 'chandrupatla' branch has 0 < lo <= 1e-4 and hi >= 1e3, contains
\* 10^log_eta_guess, and log10(lo) < log10(hi) are both finite.
C28_IntervalForEveryGuess ==
    IntervalCall => (last.ok /\ GoodInterval(Ret, GuessExp))

\* C28 (amended): the same for every log_eta_guess from -321 to 306, where
\* 10^(log_eta_guess - 2) and 10^(log_eta_guess + 2) are positive finite
\* doubles.
C28_IntervalWithinDoubleRange ==
    (IntervalCall /\ -321 * Scale <= GuessExp /\ GuessExp <= 306 * Scale) =>
        (last.ok /\ GoodInterval(Ret, GuessExp))

C28_Witness ==
    /\ IntervalCall /\ last.ok
    /\ GuessExp = -321 * Scale
    /\ Ret[1] = Exp(-323 * Scale)
    /\ Ret[2] = Exp(3 * Scale)

EtaEvaluations == {"likelihood", "likelihood_der1_eta", "likelihood_der2_eta"}
EtaOnly(h) == isscalar(h) \/ size(h) = 1

\* C29: with a hyperparam that is a scalar or has length 1 (eta only),
\* likelihood, likelihood_der1_eta and likelihood_der2_eta issue no
\* set_distance_scale: the operator's distance_scale is the same after the
\* call as before it.
C29_EtaOnlyKeepsScale ==
    (last.op \in EtaEvaluations /\ EtaOnly(last.arg.h)) =>
        /\ ~In(last.log, "set_distance_scale")
        /\ cov_ds = last.pre

C29_Witness ==
    /\ last.op = "likelihood_der2_eta" /\ last.ok
    /\ ~isscalar(last.arg.h) /\ size(last.arg.h) = 1
    /\ In(last.log, "traceinv")
    /\ cov_ds \in PosScales

\* C30: DoubleProfileLikelihood.likelihood_hessian, called with
\* (z, X, cov, sign_switch, hyperparam) for p length-scales, completes
\* without error and returns the p x p block of length-scale second
\* derivatives at [log eta*, distance_scale], eta* the re-optimized eta,
\* negated when sign_switch is set.
C30_DoubleHessianScaleBlock ==
    (last.op = "Double.likelihood_hessian") =>
        /\ last.ok
        /\ Len(Ret) = Len(last.arg.scales)
        /\ \E g \in DoubleLogEtaGuesses :
            LET ds == AbsSeq(last.arg.scales)
                eta == Double_find_optimal_eta(Fresh(Some(ds)), ds, g)
            IN  /\ eta.ok
                /\ \A p, q \in 1..Len(ds) :
                    /\ Len(Ret[p]) = Len(ds)
                    /\ Ret[p][q] = switch_sign(last.arg.sign_switch,
                                               OpDer2Scale(eta.v, ds, p, q))

=============================================================================
